---- MODULE Spec2Model ----
(***************************************************************************)
(* State-machine model of the MFDFA session class of fathon                *)
(* (src/fathon/mfdfa.pyx): the attributes of one MFDFA object and its four *)
(* public methods.                                                         *)
(*                                                                         *)
(* Numbers.  q-orders, window sizes and logarithm bases are integers that  *)
(* stand for the reals the code uses.  The values produced by code that is *)
(* external to mfdfa.pyx (the C fluctuation kernels of cLoops.h and        *)
(* numpy's polyfit) are kept as terms that record the function applied and *)
(* its arguments, so that two values are equal exactly when they were      *)
(* computed from the same arguments.                                       *)
(***************************************************************************)
EXTENDS Integers, Sequences, FiniteSets, TLC

VARIABLES
    tsVec,       \* self.tsVec: the cleaned series
    n,           \* self.n: array of window sizes
    F,           \* self.F: q x n array of fluctuations (sequence of rows)
    listH,       \* self.listH: [none, arr]; none = TRUE is Python's None
    qList,       \* self.qList: array of q-orders
    nStep,       \* self.nStep
    isComputed,  \* self.isComputed
    pc,          \* position of the thread running computeFlucVec
    frame,       \* locals of the computeFlucVec call that is inside `with nogil`
    call,        \* the last call that completed: [op, args]
    ret,         \* its outcome: [kind, exc, msg]
    out          \* arrays returned by computeMassExponents / computeMultifractalSpectrum

vars == <<tsVec, n, F, listH, qList, nStep, isComputed, pc, frame, call, ret, out>>

session == <<tsVec, n, F, listH, qList, nStep, isComputed>>

----------------------------------------------------------------------------
(* Bounds of the model *)

\* length of the raw series handed to the constructor
RawLen == 16
\* window sizes offered to a first computeFlucVec call run up to MaxWin
MaxWin == 9
\* window sizes offered to a session that is called repeatedly run up to MaxScale
MaxScale == 6
\* polynomial orders offered run from 0 to MaxPol
MaxPol == 2
\* steps offered run from 0 to MaxStep
MaxStep == 2

\* the default value that marks an omitted nMax, nStart or nEnd
NoArg == -999

\* the smallest window size computeFlucVec accepts
MinWin == 3

----------------------------------------------------------------------------
(* Helpers standing for numpy / Python primitives *)

Range(s) == { s[i] : i \in 1..Len(s) }

Min(a, b) == IF a < b THEN a ELSE b

\* int(a / b) for b > 0: true division followed by truncation toward zero
IntDiv(a, b) == IF a >= 0 THEN a \div b ELSE -((-a) \div b)

\* np.arange(start, stop, step) for step >= 1
Arange(start, stop, step) ==
    LET len == IF stop > start THEN (stop - start + step - 1) \div step ELSE 0
    IN  [i \in 1..len |-> start + (i - 1) * step]

\* s[lo:hi] for 0 <= lo (0-based, half open, clipped to the array)
Slice(s, lo, hi) ==
    LET h == Min(hi, Len(s))
    IN  IF lo >= h THEN <<>> ELSE [k \in 1..(h - lo) |-> s[lo + k]]

\* np.reshape(flat, (rows, cols))
Reshape(flat, rows, cols) ==
    [i \in 1..rows |-> [j \in 1..cols |-> flat[(i - 1) * cols + j]]]

\* one entry of np.zeros(...)
Zero == [x |-> <<>>, y |-> <<>>, base |-> 0]

----------------------------------------------------------------------------
(* Values computed by code outside mfdfa.pyx, kept as terms *)

\* flucMFDFAForwCompute / flucMFDFAForwBackwCompute(&vects[0], win, q, N, polOrd);
\* the series argument is self.tsVec, which never changes after construction
Fluc(fn, win, q, N, polOrd) ==
    [fn |-> fn, win |-> win, q |-> q, N |-> N, polOrd |-> polOrd]

\* np.polyfit(np.log(x) / np.log(base), np.log(y) / np.log(base), 1)[0]
Polyfit(x, y, base) == [x |-> x, y |-> y, base |-> base]

\* np.log(base) = 0, so that both regressands are divided by zero
LogIsZero(base) == base = 1

\* np.polyfit raises: TypeError on an empty x, LinAlgError on a non-finite x (what
\* division by a zero logarithm makes of it).  The values of F are opaque here, so
\* no failure is derived from them.
PolyfitRaises(x, base) ==
    IF Len(x) = 0 THEN "TypeError"
    ELSE IF LogIsZero(base) THEN "LinAlgError"
    ELSE ""

----------------------------------------------------------------------------
(* Construction *)

\* a raw series of RawLen entries with a NaN at every multiple of period
RawSeries(period) ==
    [i \in 1..RawLen |-> [nan |-> (period > 0 /\ i % period = 0), v |-> i]]

\* __init__: np.array(tsVec)[~np.isnan(...)]
RemoveNaN(raw) ==
    LET kept == SelectSeq(raw, LAMBDA e : ~e.nan)
    IN  [i \in 1..Len(kept) |-> kept[i].v]

NoneList == [none |-> TRUE, arr |-> <<>>]

Array(a) == [none |-> FALSE, arr |-> a]

NoFrame ==
    [q_list |-> <<>>, vecn |-> <<>>, nLen |-> 0, tsLen |-> 0, polOrd |-> 0,
     revSeg |-> FALSE, args |-> <<>>]

NoOut == [tau |-> <<>>, alpha |-> <<>>, mfSpect |-> <<>>]

InitSeries(periods) ==
    /\ \E period \in periods : tsVec = RemoveNaN(RawSeries(period))
    /\ n = <<>>
    /\ F = <<>>
    /\ qList = <<>>
    /\ listH = NoneList
    /\ nStep = 0
    /\ isComputed = FALSE
    /\ pc = "idle"
    /\ frame = NoFrame
    /\ call = [op |-> "__init__", args |-> <<>>]
    /\ ret = [kind |-> "return", exc |-> "", msg |-> ""]
    /\ out = NoOut

\* a session on a series that held NaNs
Init == InitSeries({4})

\* sessions on series of three lengths
InitAnySeries == InitSeries({0, 2, 4})

Return == [kind |-> "return", exc |-> "", msg |-> ""]

\* print(...) and fall off the end of the method: the caller gets None
PrintAndReturnNone == [kind |-> "none", exc |-> "", msg |-> "Nothing to fit"]

Raise(exc, msg) == [kind |-> "raise", exc |-> exc, msg |-> msg]

----------------------------------------------------------------------------
(* computeFlucVec *)

\* the qList arguments offered: a Python type and a value
QLists ==
    { [type |-> "float",   val |-> 2],
      [type |-> "int",     val |-> 2],
      [type |-> "list",    val |-> <<>>],
      [type |-> "list",    val |-> <<1, 2>>],
      [type |-> "ndarray", val |-> <<0, 1, 3>>],
      [type |-> "tuple",   val |-> <<1, 2>>],
      [type |-> "str",     val |-> <<>>] }

ComputeArgs ==
    [nMin : (MinWin - 1)..MaxWin, nMax : {NoArg} \cup (MinWin - 1)..MaxWin, polOrd : 0..MaxPol,
     nStep : 0..MaxStep, revSeg : BOOLEAN, qList : QLists]

\* int(tsLen / 4)
DefaultNMax(tsLen) == tsLen \div 4

NMaxOf(a, tsLen) == IF a.nMax = NoArg THEN DefaultNMax(tsLen) ELSE a.nMax

\* CheckArgs with the check of nMin against polOrd + 2 moved before the check of
\* nMax against the series length
CheckArgsReordered(a, tsLen) ==
    IF a.polOrd < 1 THEN "Polynomial order must be greater than 0"
    ELSE IF a.nStep < 1 THEN "Step for scales must be greater than 0"
    ELSE LET nMax == NMaxOf(a, tsLen) IN
         IF nMax < MinWin \/ a.nMin < MinWin
            THEN "Variable nMin and nMax must be at least equal to 3"
         ELSE IF nMax <= a.nMin
            THEN "Variable nMax must be greater than variable nMin"
         ELSE IF a.nMin < a.polOrd + 2
            THEN "Variable nMin must be at least equal to polOrd + 2"
         ELSE IF nMax > tsLen
            THEN "Variable nMax must be less than the input vector length"
         ELSE ""

\* the chain of checks of computeFlucVec, in the order of the code; "" when all pass
CheckArgs(a, tsLen) ==
    IF a.polOrd < 1 THEN "Polynomial order must be greater than 0"
    ELSE IF a.nStep < 1 THEN "Step for scales must be greater than 0"
    ELSE LET nMax == NMaxOf(a, tsLen) IN
         IF nMax < MinWin \/ a.nMin < MinWin
            THEN "Variable nMin and nMax must be at least equal to 3"
         ELSE IF nMax <= a.nMin
            THEN "Variable nMax must be greater than variable nMin"
         ELSE IF nMax > tsLen
            THEN "Variable nMax must be less than the input vector length"
         ELSE IF a.nMin < a.polOrd + 2
            THEN "Variable nMin must be at least equal to polOrd + 2"
         ELSE ""

\* isinstance(qList, float) or isinstance(qList, list) or isinstance(qList, np.ndarray)
QListTypeOk(q) == q.type = "float" \/ q.type = "list" \/ q.type = "ndarray"

\* np.array([qList]) for a float, np.array(qList) for a list or an ndarray
QListArray(q) == IF q.type = "float" THEN <<q.val>> ELSE q.val

\* the exception computeFlucVec raises before calling cy_computeFlucVec, or Return.
\* The else branch formats type(q_list), a name the method does not define (its
\* parameter is qList): where the module builds, evaluating it raises NameError
\* before the ValueError is constructed.
ComputeCheck(a, tsLen) ==
    LET m == CheckArgs(a, tsLen) IN
    IF m # "" THEN Raise("ValueError", m)
    ELSE IF ~QListTypeOk(a.qList) THEN Raise("NameError", "name 'q_list' is not defined")
    ELSE Return

\* Vecn with nMax itself as the excluded end of the range
VecnExclusive(nMin, nMax, step) == Arange(nMin, nMax, step)

\* np.arange(nMin, nMax + 1, nStep)
Vecn(nMin, nMax, step) == Arange(nMin, nMax + 1, step)

\* cy_computeFlucVec up to the nogil block: its arguments and locals
Locals(a, tsLen) ==
    LET vecn == Vecn(a.nMin, NMaxOf(a, tsLen), a.nStep) IN
    [q_list |-> QListArray(a.qList), vecn |-> vecn, nLen |-> Len(vecn),
     tsLen |-> tsLen, polOrd |-> a.polOrd, revSeg |-> a.revSeg, args |-> a]

\* the nogil block: mtxf[i*nLen+j] = fluc...(vects, vecn[j], q_list[i], tsLen, polOrd)
Mtxf(fr) ==
    [k \in 1..(Len(fr.q_list) * fr.nLen) |->
        LET i == (k - 1) \div fr.nLen
            j == (k - 1) % fr.nLen
        IN  Fluc(IF fr.revSeg THEN "flucMFDFAForwBackwCompute"
                              ELSE "flucMFDFAForwCompute",
                 fr.vecn[j + 1], fr.q_list[i + 1], fr.tsLen, fr.polOrd)]

\* np.reshape(mtxf, (len(self.qList), nLen))
FlucMatrix(fr, selfQList) == Reshape(Mtxf(fr), Len(selfQList), fr.nLen)

\* the whole method, run without another thread in between
ComputeFlucVec(a) ==
    /\ pc = "idle"
    /\ call' = [op |-> "computeFlucVec", args |-> a]
    /\ ret' = ComputeCheck(a, Len(tsVec))
    /\ out' = NoOut
    /\ IF ret'.kind = "raise"
          THEN UNCHANGED <<n, F, qList, nStep, isComputed>>
          ELSE LET fr == Locals(a, Len(tsVec)) IN
               /\ qList' = fr.q_list
               /\ nStep' = a.nStep
               /\ n' = fr.vecn
               /\ F' = FlucMatrix(fr, fr.q_list)
               /\ isComputed' = TRUE
    /\ UNCHANGED <<tsVec, listH, pc, frame>>

\* the first computeFlucVec call of a session, over every argument offered
FirstCompute ==
    /\ call.op = "__init__"
    /\ \E a \in ComputeArgs : ComputeFlucVec(a)

SpecArgs == InitAnySeries /\ [][FirstCompute]_vars

----------------------------------------------------------------------------
(* fitFlucVec *)

\* logarithm bases offered: 2 stands for a base with a non-zero logarithm
LogBases == {1, 2}

FitLimitsOffered == {NoArg} \cup (MinWin - 1)..MaxScale

\* every pair of limits with base 2, and the default limits with base 1
FitArgs ==
    [nStart : FitLimitsOffered, nEnd : FitLimitsOffered, logBase : {2}]
    \cup [nStart : {NoArg}, nEnd : {NoArg}, logBase : {1}]

\* nStart / nEnd after the defaults n[0] and n[-1]
FitLimits(a) ==
    [nStart |-> IF a.nStart = NoArg THEN n[1] ELSE a.nStart,
     nEnd   |-> IF a.nEnd = NoArg THEN n[Len(n)] ELSE a.nEnd]

\* the three checks of the limits; "" when all pass
CheckLimits(lim) ==
    IF lim.nStart > lim.nEnd
       THEN "Variable nEnd must be greater than variable nStart"
    ELSE IF lim.nStart < n[1] \/ lim.nEnd > n[Len(n)]
       THEN "Fit limits must be included in interval"
    ELSE IF lim.nStart \notin Range(n) \/ lim.nEnd \notin Range(n)
       THEN "Fit limits must be included in the n vector"
    ELSE ""

\* FitIndex without the division by the step
FitIndexNoStep(limit) == limit - n[1]

\* int((limit - self.n[0]) / self.nStep)
FitIndex(limit) == IntDiv(limit - n[1], nStep)

\* self.n[start:end+1]
FitScales(start, end) == Slice(n, start, end + 1)

\* self.F[i, start:end+1], i counted from 1
FitColumns(i, start, end) == Slice(F[i], start, end + 1)

\* what iteration i of the loop raises: IndexError when F has no row i,
\* else what np.polyfit raises; "" when the iteration completes
IterationRaises(i, start, end, base) ==
    IF i > Len(F) THEN "IndexError"
    ELSE PolyfitRaises(FitScales(start, end), base)

\* self.listH when the loop ends, normally or by the exception of iteration `bad`
\* (bad = 0: no iteration raised)
ListHAfterLoop(qLen, bad, start, end, base) ==
    [i \in 1..qLen |->
        IF bad = 0 \/ i < bad
           THEN Polyfit(FitScales(start, end), FitColumns(i, start, end), base)
           ELSE Zero]

FitFlucVec(a) ==
    /\ call' = [op |-> "fitFlucVec", args |-> a]
    /\ out' = NoOut
    /\ IF ~isComputed
          THEN /\ ret' = PrintAndReturnNone
               /\ UNCHANGED listH
          ELSE LET lim == FitLimits(a)
                   m   == CheckLimits(lim) IN
               IF m # ""
                  THEN /\ ret' = Raise("ValueError", m)
                       /\ UNCHANGED listH
                  ELSE LET qLen  == Len(qList)
                           start == FitIndex(lim.nStart)
                           end   == FitIndex(lim.nEnd)
                           fails == { i \in 1..qLen :
                                        IterationRaises(i, start, end, a.logBase) # "" }
                           bad   == IF fails = {} THEN 0
                                    ELSE CHOOSE i \in fails : \A k \in fails : i <= k
                       IN  /\ listH' = Array(ListHAfterLoop(qLen, bad, start, end, a.logBase))
                           /\ ret' = IF bad = 0 THEN Return
                                     ELSE Raise(IterationRaises(bad, start, end, a.logBase),
                                                "raised in the fit loop")
    /\ UNCHANGED <<tsVec, n, F, qList, nStep, isComputed, pc, frame>>

----------------------------------------------------------------------------
(* computeMassExponents and computeMultifractalSpectrum *)

\* h * q - 1
Tau(h, q) == [H |-> h, q |-> q]

\* (hi - lo) / dq
Alpha(hi, lo, dq) == [hi |-> hi, lo |-> lo, dq |-> dq]

\* q * alpha - tau
MfSpect(q, alpha, tau) == [q |-> q, alpha |-> alpha, tau |-> tau]

\* the statement tau = self.listH * self.qList - 1 with numpy's broadcasting:
\* the exception it raises ("" for none) and the array it yields
MassExponents ==
    LET lh == Len(listH.arr)
        lq == Len(qList) IN
    IF listH.none
       THEN [exc |-> IF lq = 0 THEN "ValueError" ELSE "TypeError", tau |-> <<>>]
    ELSE IF lh = lq \/ lh = 1 \/ lq = 1
       THEN [exc |-> "",
             tau |-> [i \in 1..(IF lh = 1 THEN lq ELSE lh) |->
                        Tau(listH.arr[IF lh = 1 THEN 1 ELSE i],
                            qList[IF lq = 1 THEN 1 ELSE i])]]
    ELSE [exc |-> "ValueError", tau |-> <<>>]

ComputeMassExponents ==
    /\ call' = [op |-> "computeMassExponents", args |-> <<>>]
    /\ IF ~isComputed
          THEN ret' = PrintAndReturnNone /\ out' = NoOut
          ELSE LET r == MassExponents IN
               IF r.exc # ""
                  THEN ret' = Raise(r.exc, "raised by listH * qList") /\ out' = NoOut
                  ELSE ret' = Return /\ out' = [NoOut EXCEPT !.tau = r.tau]
    /\ UNCHANGED <<session, pc, frame>>

\* np.diff(tau) / (self.qList[1] - self.qList[0])
SingularityStrengths(tau) ==
    [k \in 1..(Len(tau) - 1) |-> Alpha(tau[k + 1], tau[k], qList[2] - qList[1])]

\* self.qList[0:-1] * alpha - tau[0:-1]
Spectrum(tau, alpha) ==
    [k \in 1..(Len(qList) - 1) |-> MfSpect(qList[k], alpha[k], tau[k])]

ComputeMultifractalSpectrum ==
    /\ call' = [op |-> "computeMultifractalSpectrum", args |-> <<>>]
    /\ IF ~isComputed
          THEN ret' = PrintAndReturnNone /\ out' = NoOut
          ELSE IF ~(Len(qList) > 1)
          THEN /\ ret' = Raise("ValueError", "Number of q moments must be greater than one")
               /\ out' = NoOut
          ELSE LET r == MassExponents IN
               IF r.exc # ""
                  THEN ret' = Raise(r.exc, "raised by listH * qList") /\ out' = NoOut
                  ELSE LET alpha == SingularityStrengths(r.tau) IN
                       /\ ret' = Return
                       /\ out' = [NoOut EXCEPT !.alpha = alpha,
                                               !.mfSpect = Spectrum(r.tau, alpha)]
    /\ UNCHANGED <<session, pc, frame>>

----------------------------------------------------------------------------
(* One caller, one call at a time *)

\* the computeFlucVec arguments offered to a session that is called repeatedly
SeqQLists ==
    { [type |-> "float",   val |-> 2],
      [type |-> "int",     val |-> 2],
      [type |-> "list",    val |-> <<1, 2>>],
      [type |-> "ndarray", val |-> <<0, 1, 3>>] }

SeqComputeArgs ==
    [nMin : {MinWin}, nMax : {NoArg, MaxScale}, polOrd : {1}, nStep : 0..MaxStep,
     revSeg : {FALSE}, qList : SeqQLists]

Compute == \E a \in SeqComputeArgs : ComputeFlucVec(a)

Fit == \E a \in FitArgs : FitFlucVec(a)

Next ==
    \/ Compute
    \/ Fit
    \/ ComputeMassExponents
    \/ ComputeMultifractalSpectrum

Spec == Init /\ [][Next]_vars

----------------------------------------------------------------------------
(* Properties of the first computeFlucVec call (SpecArgs) *)

\* floor(N / 4), stated without division
FloorQuarter(N) == CHOOSE m \in 0..N : 4 * m <= N /\ N < 4 * (m + 1)

\* nMax as the six checks see it: an omitted nMax is floor(N / 4)
StatedNMax(a, N) == IF a.nMax = NoArg THEN FloorQuarter(N) ELSE a.nMax

\* the k-th of the six checks is violated
CheckViolated(k, a, N) ==
    LET nMax == StatedNMax(a, N) IN
    CASE k = 1 -> a.polOrd < 1
      [] k = 2 -> a.nStep < 1
      [] k = 3 -> nMax < 3 \/ a.nMin < 3
      [] k = 4 -> nMax <= a.nMin
      [] k = 5 -> nMax > N
      [] k = 6 -> a.nMin < a.polOrd + 2

CheckMessage ==
    << "Polynomial order must be greater than 0",
       "Step for scales must be greater than 0",
       "Variable nMin and nMax must be at least equal to 3",
       "Variable nMax must be greater than variable nMin",
       "Variable nMax must be less than the input vector length",
       "Variable nMin must be at least equal to polOrd + 2" >>

ChecksViolated(a, N) == { k \in 1..6 : CheckViolated(k, a, N) }

FirstViolated(a, N) ==
    CHOOSE k \in ChecksViolated(a, N) : \A j \in ChecksViolated(a, N) : k <= j

\* C3: computeFluctuations, given a float, a list or an ndarray as qOrders, raises
\* a ValueError exactly when one of the six checks (polynomialOrder < 1; nStep < 1;
\* nMax < 3 or nMin < 3; nMax <= nMin; nMax > N; nMin < polynomialOrder + 2, an
\* omitted nMax being floor(N/4)) is violated, and whatever qOrders is, the error
\* raised is that of the first violated check in this order.
C3_ValidationOrder ==
    call.op = "computeFlucVec" =>
        LET a == call.args
            N == Len(tsVec) IN
        /\ ChecksViolated(a, N) # {} =>
               ret = Raise("ValueError", CheckMessage[FirstViolated(a, N)])
        /\ (ChecksViolated(a, N) = {} /\ a.qList.type \in {"float", "list", "ndarray"}) =>
               ret.kind = "return" /\ isComputed

\* an omitted nMax defaults to a value that fails check 4, check 6 fails too,
\* and the error reported is that of check 4
C3_Witness ==
    /\ call.op = "computeFlucVec"
    /\ call.args.nMax = NoArg
    /\ call.args.nMin < call.args.polOrd + 2
    /\ Len(tsVec) \div 4 = call.args.nMin
    /\ ret = Raise("ValueError", CheckMessage[4])

\* the number of q-orders a qOrders argument holds
NumOrders(q) == IF q.type = "float" THEN 1 ELSE Len(q.val)

\* C8: for all valid (nMin, nMax, nStep, polynomialOrder) the ScaleSet returned by
\* computeFluctuations starts at nMin, is strictly increasing with consecutive
\* entries nStep apart, lies in [nMin, nMax], has ceil((nMax - nMin + 1)/nStep)
\* entries, and the matrix returned has one row per q-order and one column per scale.
C8_ScaleSetShape ==
    (call.op = "computeFlucVec" /\ ret.kind = "return") =>
        LET a    == call.args
            nMax == StatedNMax(a, Len(tsVec))
            span == nMax - a.nMin + 1 IN
        /\ (Len(n) - 1) * a.nStep < span
        /\ span <= Len(n) * a.nStep
        /\ n[1] = a.nMin
        /\ \A i \in 1..(Len(n) - 1) : n[i] < n[i + 1] /\ n[i + 1] - n[i] = a.nStep
        /\ \A i \in 1..Len(n) : a.nMin <= n[i] /\ n[i] <= nMax
        /\ Len(F) = NumOrders(a.qList)
        /\ \A r \in 1..Len(F) : Len(F[r]) = Len(n)

\* a returned ScaleSet whose last entry is below nMax, with several q-orders
C8_Witness ==
    /\ call.op = "computeFlucVec"
    /\ ret.kind = "return"
    /\ call.args.nStep = 2
    /\ call.args.nMax # NoArg
    /\ Len(n) >= 2
    /\ n[Len(n)] < call.args.nMax
    /\ Len(F) = 3

\* C9: with valid scale parameters computeFluctuations accepts a single real number
\* or a sequence of reals as qOrders, and rejects any other qOrders with the
\* ValueError of the scale checks, leaving the session not computed.
C9_QOrdersKinds ==
    (call.op = "computeFlucVec" /\ ChecksViolated(call.args, Len(tsVec)) = {}) =>
        IF call.args.qList.type \in {"float", "int", "list", "ndarray", "tuple"}
           THEN ret.kind = "return" /\ isComputed
           ELSE ret.kind = "raise" /\ ret.exc = "ValueError" /\ ~isComputed

----------------------------------------------------------------------------
(* Properties of a session called repeatedly by one caller (Spec) *)

\* the slopes a fit of the current F over columns start..end (0-based) yields
FitOf(start, end, base) ==
    [i \in 1..Len(qList) |->
        Polyfit(Slice(n, start, end + 1), Slice(F[i], start, end + 1), base)]

\* the session is in state Fitted: listH holds the slopes of a fit of the current F
Fitted ==
    /\ isComputed
    /\ ~listH.none
    /\ \E s \in 0..(Len(n) - 1), e \in 0..(Len(n) - 1), b \in LogBases :
          s <= e /\ listH.arr = FitOf(s, e, b)

\* C1: on a session where computeFluctuations never completed, fitFluctuations
\* fails with an error reported to the caller.
C1_FitBeforeComputeRaises ==
    (call.op = "fitFlucVec" /\ ~isComputed) => ret.kind = "raise"

\* C2: massExponents and multifractalSpectrum invoked in a state earlier than
\* Fitted fail with an error; they never return a value or complete silently.
C2_DerivedBeforeFittedRaises ==
    (call.op \in {"computeMassExponents", "computeMultifractalSpectrum"} /\ ~Fitted)
        => ret.kind = "raise"

\* C4: whenever an operation fails, every piece of session state is identical to
\* its value before the call.
C4_FailureLeavesStateUnchanged ==
    [][ret'.kind = "raise" => UNCHANGED session]_vars

\* no stored slope is an entry that a fit interrupted by an exception left at zero
NoFitInterrupted == \A i \in 1..Len(listH.arr) : listH.arr[i] # Zero

\* C6: whenever massExponents returns a value it has one entry per q-order of the
\* current QOrderSet and entry i is H[i]*q[i] - 1, H being the result of a fit of
\* the current FluctuationMatrix and not one left over from a fit made before the
\* latest computeFluctuations.  (Stated for sessions in which no fit was interrupted,
\* so that a violation is a left-over slope and nothing else.)
C6_MassExponentsOfCurrentFit ==
    (call.op = "computeMassExponents" /\ ret.kind = "return" /\ NoFitInterrupted) =>
        /\ Len(out.tau) = Len(qList)
        /\ \E s \in 0..(Len(n) - 1), e \in 0..(Len(n) - 1), b \in LogBases :
              /\ s <= e
              /\ \A i \in 1..Len(qList) : out.tau[i] = Tau(FitOf(s, e, b)[i], qList[i])

\* the ScaleSet entries in [lo, hi], in order
ScalesIn(lo, hi) == SelectSeq(n, LAMBDA w : lo <= w /\ w <= hi)

\* the entries of row i of F in the columns of the scales in [lo, hi], in order
ColumnsIn(i, lo, hi) ==
    LET cols  == { j \in 1..Len(n) : lo <= n[j] /\ n[j] <= hi }
        first == CHOOSE j \in cols : \A k \in cols : j <= k
    IN  [k \in 1..Cardinality(cols) |-> F[i][first + k - 1]]

\* C7: on a computed session fitFluctuations(nStart, nEnd) fails with the
\* ValueError of the limits exactly when it is not the case that nStart <= nEnd and
\* both are entries of the ScaleSet (omitted limits being its first / last entry);
\* with accepted limits and a base of non-zero logarithm it returns, and whenever it
\* returns the regression of every q-order was made on exactly the scales s with
\* nStart <= s <= nEnd and on their columns of the matrix.
C7_FitRange ==
    (call.op = "fitFlucVec" /\ isComputed) =>
        LET a  == call.args
            lo == IF a.nStart = NoArg THEN n[1] ELSE a.nStart
            hi == IF a.nEnd = NoArg THEN n[Len(n)] ELSE a.nEnd
            accepted == lo <= hi /\ lo \in Range(n) /\ hi \in Range(n) IN
        /\ ~accepted <=> (ret.kind = "raise" /\ ret.exc = "ValueError")
        /\ (accepted /\ a.logBase # 1) => ret.kind = "return"
        /\ ret.kind = "return" =>
              /\ ~listH.none
              /\ Len(listH.arr) = Len(qList)
              /\ \A i \in 1..Len(qList) :
                    /\ listH.arr[i].x = ScalesIn(lo, hi)
                    /\ listH.arr[i].y = ColumnsIn(i, lo, hi)

\* a fit on a ScaleSet of step 2 that starts after the first scale
C7_Witness ==
    /\ call.op = "fitFlucVec"
    /\ ret.kind = "return"
    /\ nStep = 2
    /\ call.args.nStart # NoArg
    /\ call.args.nStart > n[1]
    /\ Len(listH.arr) >= 2
    /\ Len(listH.arr[1].x) >= 1

\* C10: on a computed and fitted session multifractalSpectrum fails when there are
\* fewer than 2 q-orders, and otherwise returns alpha and f with |QOrderSet| - 1
\* entries, alpha[k] = (tau[k+1] - tau[k]) / (q[k+1] - q[k]) and
\* f[k] = q[k]*alpha[k] - tau[k].
C10_SpectrumPerInterval ==
    (call.op = "computeMultifractalSpectrum" /\ Fitted) =>
        IF Len(qList) < 2
           THEN ret.kind = "raise" /\ ret.exc = "ValueError"
           ELSE /\ ret.kind = "return"
                /\ Len(out.alpha) = Len(qList) - 1
                /\ Len(out.mfSpect) = Len(qList) - 1
                /\ \A k \in 1..(Len(qList) - 1) :
                      LET tauHi == Tau(listH.arr[k + 1], qList[k + 1])
                          tauLo == Tau(listH.arr[k], qList[k]) IN
                      /\ out.alpha[k] = Alpha(tauHi, tauLo, qList[k + 1] - qList[k])
                      /\ out.mfSpect[k] = MfSpect(qList[k], out.alpha[k], tauLo)

----------------------------------------------------------------------------
(* A thread that recomputes while another thread reads (SpecConc) *)

\* computeFlucVec up to the `with nogil` block of cy_computeFlucVec, where the
\* computing thread releases the interpreter lock: the checks, the conversion of
\* qList, and the assignments to self.qList and self.nStep
ComputeBegin(a) ==
    /\ pc = "idle"
    /\ LET r == ComputeCheck(a, Len(tsVec)) IN
       IF r.kind = "raise"
          THEN /\ call' = [op |-> "computeFlucVec", args |-> a]
               /\ ret' = r
               /\ out' = NoOut
               /\ UNCHANGED <<qList, nStep, pc, frame>>
          ELSE LET fr == Locals(a, Len(tsVec)) IN
               /\ qList' = fr.q_list
               /\ nStep' = a.nStep
               /\ frame' = fr
               /\ pc' = "nogil"
               /\ UNCHANGED <<call, ret, out>>
    /\ UNCHANGED <<tsVec, n, F, listH, isComputed>>

\* the nogil block, the return of cy_computeFlucVec and the assignments to self.n,
\* self.F and self.isComputed that follow it
ComputeEnd ==
    /\ pc = "nogil"
    /\ n' = frame.vecn
    /\ F' = FlucMatrix(frame, qList)
    /\ isComputed' = TRUE
    /\ call' = [op |-> "computeFlucVec", args |-> frame.args]
    /\ ret' = Return
    /\ out' = NoOut
    /\ pc' = "idle"
    /\ frame' = NoFrame
    /\ UNCHANGED <<tsVec, listH, qList, nStep>>

BeginCompute == \E a \in SeqComputeArgs : ComputeBegin(a)

\* the reading thread's calls run whole: it holds the interpreter lock throughout
ReadFitArgs == [nStart : {NoArg, MinWin}, nEnd : {NoArg}, logBase : LogBases]

ReadFit == \E a \in ReadFitArgs : FitFlucVec(a)

NextConc ==
    \/ BeginCompute
    \/ ComputeEnd
    \/ ReadFit
    \/ ComputeMassExponents
    \/ ComputeMultifractalSpectrum

SpecConc == Init /\ [][NextConc]_vars

\* qList, nStep, n and F are together the result of one computeFlucVec call
OneCompute ==
    \E a \in SeqComputeArgs :
        /\ ComputeCheck(a, Len(tsVec)) = Return
        /\ qList = QListArray(a.qList)
        /\ nStep = a.nStep
        /\ n = Vecn(a.nMin, NMaxOf(a, Len(tsVec)), a.nStep)
        /\ F = FlucMatrix(Locals(a, Len(tsVec)), qList)

\* C5: while computeFluctuations is re-run on a computed session, at every point
\* where another thread can read the session the FluctuationMatrix, the ScaleSet,
\* the QOrderSet and the step are all those of the previous compute or all those of
\* the new one.
C5_RecomputeIsAtomic == isComputed => OneCompute

====
